---- MODULE Spec2Model ----
(***************************************************************************)
(* FastMetro: the refresh pipeline that turns the metro feed into stations *)
(* and trips (app/services/metro.py, enrich_database), the adjacency graph *)
(* built from them (build_graph), the Dijkstra search over it              *)
(* (shortest_path_by_time), the handler of /path (app/main.py) and the     *)
(* transfer inference of scripts/visualize_metro.py, as state machines.    *)
(*                                                                         *)
(* Station identifiers are the strings of the feed ("1.148"); the model    *)
(* writes them as the integers 1..NumStations, ordered as Python orders    *)
(* the strings.  Times are the floats of app/config.py; the model keeps    *)
(* them as integers (3.0 and 6.0 and their sums are exact in a float).     *)
(***************************************************************************)
EXTENDS Integers, Sequences, FiniteSets, TLC

\* ----------------------------------------------------------------- bounds
NumStations == 3
MaxTrips == 2
MaxLineLen == 2
MaxInsertions == 2
MaxPoints == 3

StationIds == 1..NumStations

\* ------------------------------------------------- app/models.py, config
same_line == "same_line"
transfer == "transfer"
EdgeType == {same_line, transfer}

minutes_per_segment == 3
minutes_per_transfer == 6

\* The loop of shortest_path_by_time has not returned.
Continue == [continue |-> TRUE]

\* Python's None, the not-found value of shortest_path_by_time.
None == [none |-> TRUE]

VARIABLES
    settings,   \* app.config.settings: minutes_per_segment, minutes_per_transfer
    graph,      \* argument of shortest_path_by_time: station id -> <<neighbor, is_transfer>> list
    start_id,   \* argument of shortest_path_by_time
    end_id,     \* argument of shortest_path_by_time
    best,       \* local of shortest_path_by_time: station id -> best known time
    heap,       \* local of shortest_path_by_time: the heapq list of entries
    pc,         \* position in shortest_path_by_time: "idle", "loop", "done"
    result,     \* return value of shortest_path_by_time: None or [path, total_minutes]
    pops        \* the entries heappop has returned in this call, and what
                \* the loop did with each

pathVars == <<settings, graph, start_id, end_id, best, heap, pc, result, pops>>

VARIABLES
    api,            \* the documents the HH API may answer a fetch with
    STATIONS_ADD,   \* metro.py table: the station rows to insert
    EDGE_REMOVE,    \* metro.py table: (from_id, to_id, edge_type) to remove
    EDGE_ADD        \* metro.py table: (from_id, to_id, edge_type) to add

tableVars == <<api, STATIONS_ADD, EDGE_REMOVE, EDGE_ADD>>

VARIABLES
    db_stations,    \* committed rows of table stations, in insertion order
    db_trips,       \* committed rows of table trips, in id order
    started         \* lifespan has yielded: the application serves requests

dbVars == <<db_stations, db_trips, started>>

VARIABLES
    enrich_pc,        \* position in enrich_database
    enrich_data,      \* its local data
    enrich_stations,  \* its local stations
    enrich_trips,     \* its local trips
    enrich_result,    \* what its last call returned or raised
    before            \* the committed rows when its last call began

enrichVars == <<enrich_pc, enrich_data, enrich_stations, enrich_trips, enrich_result, before>>

VARIABLES
    query_pc,         \* position in get_shortest_path
    from_station_id,  \* its argument
    to_station_id,    \* its argument
    query_stations,   \* its local stations
    query_trips,      \* its local trips
    query_result,     \* what its last call returned or raised
    response,         \* what the endpoint /path answered the last request with
    complete,         \* the committed rows before and after each call of
                      \* enrich_database that ran while its last call ran
    overlap           \* such a call of enrich_database has not finished yet

queryVars == <<query_pc, from_station_id, to_station_id, query_stations, query_trips,
               query_result, response, complete, overlap>>

VARIABLES
    args,   \* the arguments of a function that is called on its own
    rets    \* what its calls have returned, one after the other

callVars == <<args, rets>>

vars == <<pathVars, tableVars, dbVars, enrichVars, queryVars, callVars>>

\* ------------------------------------------------------------ build_graph
Trip(a, b, et) == [from_station_id |-> a, to_station_id |-> b, edge_type |-> et]

StationKeys(stations) == {stations[i].id : i \in DOMAIN stations}

\* graph[t.from_station_id] raises KeyError for a trip whose origin is no key.
build_graph_raises(stations, trips) ==
    \E i \in DOMAIN trips : trips[i].from_station_id \notin StationKeys(stations)

RECURSIVE build_graph_loop(_, _)
build_graph_loop(g, trips) ==
    IF trips = <<>> THEN g
    ELSE LET t == Head(trips)
             is_transfer == (t.edge_type = transfer)
         IN build_graph_loop(
                [g EXCEPT ![t.from_station_id] =
                    Append(@, <<t.to_station_id, is_transfer>>)],
                Tail(trips))

\* The graph returned when no KeyError is raised.
build_graph(stations, trips) ==
    build_graph_loop([s \in StationKeys(stations) |-> <<>>], trips)

\* ---------------------------------------------------------- _edge_minutes
\* Line 439 with its two branches exchanged.
edge_minutes_swapped(cfg, is_transfer) ==
    IF is_transfer THEN cfg.minutes_per_segment ELSE cfg.minutes_per_transfer

\* Line 439 without its condition: every edge costs what a segment costs.
edge_minutes_flat(cfg, is_transfer) == cfg.minutes_per_segment

edge_minutes(cfg, is_transfer) ==
    IF is_transfer THEN cfg.minutes_per_transfer ELSE cfg.minutes_per_segment

\* ------------------------------------------------------------------ heapq
\* Python compares the heap's tuples (time, node, path) lexicographically;
\* a path is a list of (station id, bool) tuples, compared the same way.
StepLess(x, y) ==
    \/ x[1] < y[1]
    \/ x[1] = y[1] /\ x[2] = FALSE /\ y[2] = TRUE

RECURSIVE PathLess(_, _)
PathLess(p, q) ==
    IF q = <<>> THEN FALSE
    ELSE IF p = <<>> THEN TRUE
    ELSE IF Head(p) = Head(q) THEN PathLess(Tail(p), Tail(q))
    ELSE StepLess(Head(p), Head(q))

EntryLess(x, y) ==
    \/ x.time < y.time
    \/ x.time = y.time /\ x.node < y.node
    \/ x.time = y.time /\ x.node = y.node /\ PathLess(x.path, y.path)

\* A list used as a queue instead of a heap: pop(0).
HeapFirstIndex(h) == 1

\* Index of the entry heappop returns: the least one.
HeapMinIndex(h) ==
    CHOOSE i \in DOMAIN h :
        \A j \in DOMAIN h : j = i \/ EntryLess(h[i], h[j]) \/ (h[i] = h[j] /\ i < j)

\* A pop that leaves the entry in the list: heap[0] read, not popped.
RemoveNone(h, i) == h

RemoveAt(h, i) == SubSeq(h, 1, i - 1) \o SubSeq(h, i + 1, Len(h))

heappush(h, e) == Append(h, e)

\* -------------------------------------------------- shortest_path_by_time
\* The tuple (path, total_minutes) that shortest_path_by_time returns.
Found(path, total) == [path |-> path, total_minutes |-> total]

\* Line 472 with the flag of the edge lost: path + [(neighbor, False)].
ExtendUnflagged(path, neighbor, is_transfer) == Append(path, <<neighbor, FALSE>>)

\* Line 472: path + [(neighbor, is_transfer)].
Extend(path, neighbor, is_transfer) == Append(path, <<neighbor, is_transfer>>)

\* Lines 467-472: the relaxation of the outgoing edges of cur, in list order.
RECURSIVE Relax(_, _, _, _, _, _)
Relax(cfg, edges, time_cur, path, b, h) ==
    IF edges = <<>> THEN [best |-> b, heap |-> h]
    ELSE LET neighbor == Head(edges)[1]
             is_transfer == Head(edges)[2]
             w == edge_minutes(cfg, is_transfer)
             time_next == time_cur + w
         IN IF neighbor \notin DOMAIN b \/ time_next < b[neighbor]
            THEN Relax(cfg, Tail(edges), time_cur, path,
                       [n \in DOMAIN b \cup {neighbor} |->
                            IF n = neighbor THEN time_next ELSE b[n]],
                       heappush(h, [time |-> time_next, node |-> neighbor,
                                    path |-> Extend(path, neighbor, is_transfer)]))
            ELSE Relax(cfg, Tail(edges), time_cur, path, b, h)

\* Line 473 returning a path to the destination instead of None.
ExhaustedAsFound(e) == Found(<< <<e, FALSE>> >>, 0)

\* Line 473: the heap is empty, the value returned is None.
Exhausted(e) == None

\* Line 465 left out: no popped entry is taken for a stale one.
StaleNever(b, top) == FALSE

\* Line 465: time_cur > best.get(cur, float("inf")).
Stale(b, top) == top.node \in DOMAIN b /\ top.time > b[top.node]

\* A popped entry and what the loop did with it: "returned" (line 464),
\* "discarded" (line 466) or "relaxed" (lines 467-472). exceeds and equals
\* compare its time with best.get(cur) as it was when the entry was popped.
Popped(b, top, kind) ==
    [node |-> top.node, time |-> top.time, kind |-> kind,
     exceeds |-> (top.node \in DOMAIN b /\ top.time > b[top.node]),
     equals |-> (top.node \in DOMAIN b /\ top.time = b[top.node])]

\* Lines 461-473: one iteration of the while loop, from the state (b, h).
\* ret is Continue while the loop goes on, otherwise the value returned;
\* popped holds the entry the iteration has popped, if it has popped one.
LoopBody(cfg, g, e, b, h) ==
    IF h = <<>> THEN [best |-> b, heap |-> h, ret |-> Exhausted(e), popped |-> <<>>]
    ELSE LET i == HeapMinIndex(h)
             top == h[i]
             rest == RemoveAt(h, i)
         IN IF top.node = e
            THEN [best |-> b, heap |-> rest,
                  ret |-> Found(top.path, top.time),
                  popped |-> <<Popped(b, top, "returned")>>]
            ELSE IF Stale(b, top)
            THEN [best |-> b, heap |-> rest, ret |-> Continue,
                  popped |-> <<Popped(b, top, "discarded")>>]
            ELSE LET r == Relax(cfg, g[top.node], top.time, top.path, b, rest)
                 IN [best |-> r.best, heap |-> r.heap, ret |-> Continue,
                     popped |-> <<Popped(b, top, "relaxed")>>]

\* Lines 453-456 in the other order: start == end is tested first.
EntrySameFirst(g, s, e) ==
    IF s = e
    THEN [best |-> <<>>, heap |-> <<>>,
          ret |-> Found(<< <<s, FALSE>> >>, 0)]
    ELSE IF s \notin DOMAIN g \/ e \notin DOMAIN g
    THEN [best |-> <<>>, heap |-> <<>>, ret |-> None]
    ELSE [best |-> [n \in {s} |-> 0],
          heap |-> << [time |-> 0, node |-> s, path |-> << <<s, FALSE>> >>] >>,
          ret |-> Continue]

\* Lines 453-460 with the origin entered as a transfer: [(start_id, True)].
EntryFlagged(g, s, e) ==
    IF s \notin DOMAIN g \/ e \notin DOMAIN g
    THEN [best |-> <<>>, heap |-> <<>>, ret |-> None]
    ELSE IF s = e
    THEN [best |-> <<>>, heap |-> <<>>,
          ret |-> Found(<< <<s, TRUE>> >>, 0)]
    ELSE [best |-> [n \in {s} |-> 0],
          heap |-> << [time |-> 0, node |-> s, path |-> << <<s, FALSE>> >>] >>,
          ret |-> Continue]

\* Lines 453-460: the two early returns and the initial best and heap.
Entry(g, s, e) ==
    IF s \notin DOMAIN g \/ e \notin DOMAIN g
    THEN [best |-> <<>>, heap |-> <<>>, ret |-> None]
    ELSE IF s = e
    THEN [best |-> <<>>, heap |-> <<>>,
          ret |-> Found(<< <<s, FALSE>> >>, 0)]
    ELSE [best |-> [n \in {s} |-> 0],
          heap |-> << [time |-> 0, node |-> s, path |-> << <<s, FALSE>> >>] >>,
          ret |-> Continue]

\* Lines 442-473 as one call.
RECURSIVE RunLoop(_, _, _, _, _)
RunLoop(cfg, g, e, b, h) ==
    LET r == LoopBody(cfg, g, e, b, h)
    IN IF r.ret = Continue THEN RunLoop(cfg, g, e, r.best, r.heap) ELSE r.ret

shortest_path_by_time(cfg, g, s, e) ==
    LET r == Entry(g, s, e)
    IN IF r.ret = Continue THEN RunLoop(cfg, g, e, r.best, r.heap) ELSE r.ret

\* ------------------------------------------------------- the feed document
\* A station entry of the feed. Its name stands for the fields read at lines
\* 389-395 (name, lat, lng, order); an entry without "id" or without "name"
\* is a malformed one.
FeedStation(i) == [id |-> i, name |-> "raw"]
FeedStationNoId == [name |-> "raw"]

FeedLine(l, entries) == [id |-> l, name |-> "line", stations |-> entries]
FeedLineNoId(entries) == [name |-> "line", stations |-> entries]

FeedDoc(lines) == [lines |-> lines]

\* ------------------------------------------------- enrich_database, parts
\* A Station row; line_id stands for the attributes taken from the line.
\* Station(...) is taken to build the row from its keyword arguments.
Station(id, name, line_id) == [id |-> id, name |-> name, line_id |-> line_id]

\* Lines 381-398: line["id"], line["name"], s["id"], s["name"] raise KeyError.
ParseRaises(doc) ==
    \E i \in DOMAIN doc.lines :
        \/ ~({"id", "name"} \subseteq DOMAIN doc.lines[i])
        \/ \E j \in DOMAIN doc.lines[i].stations :
              ~({"id", "name"} \subseteq DOMAIN doc.lines[i].stations[j])

LineStations(line) ==
    [j \in DOMAIN line.stations |->
        Station(line.stations[j].id, line.stations[j].name, line.id)]

\* Lines 378-398: the list stations, one row per entry, in feed order.
RECURSIVE ParseStations(_)
ParseStations(lines) ==
    IF lines = <<>> THEN <<>>
    ELSE LineStations(Head(lines)) \o ParseStations(Tail(lines))

\* Lines 379, 398: station_by_id, where a later row replaces an earlier one.
StationById(rows) ==
    [id \in StationKeys(rows) |->
        rows[CHOOSE i \in DOMAIN rows :
                /\ rows[i].id = id
                /\ \A j \in DOMAIN rows : rows[j].id = id => j <= i]]

\* STATION_FIXES: the rows of the table that rename a station (line 27).
STATION_FIXES == [id \in {1} |-> [name |-> "fixed"]]

\* Lines 31-42.
apply_station_fixes(rows) ==
    [i \in DOMAIN rows |->
        IF rows[i].id \in DOMAIN STATION_FIXES
        THEN [rows[i] EXCEPT !.name = STATION_FIXES[rows[i].id].name]
        ELSE rows[i]]

\* Lines 64-81 without lines 67-68: a row is appended whether or not its
\* id is a key of station_by_id.
RECURSIVE apply_stations_add_unchecked(_, _, _)
apply_stations_add_unchecked(table, rows, by_id) ==
    IF table = <<>> THEN [stations |-> rows, station_by_id |-> by_id]
    ELSE LET row == Head(table)
         IN apply_stations_add_unchecked(
                Tail(table),
                Append(rows, row),
                [id \in DOMAIN by_id \cup {row.id} |->
                    IF id = row.id THEN row ELSE by_id[id]])

\* Lines 64-81: rows and by_id after the loop over the table.
RECURSIVE apply_stations_add(_, _, _)
apply_stations_add(table, rows, by_id) ==
    IF table = <<>> THEN [stations |-> rows, station_by_id |-> by_id]
    ELSE LET row == Head(table)
         IN IF row.id \in DOMAIN by_id
            THEN apply_stations_add(Tail(table), rows, by_id)
            ELSE apply_stations_add(
                    Tail(table),
                    Append(rows, row),
                    [id \in DOMAIN by_id \cup {row.id} |->
                        IF id = row.id THEN row ELSE by_id[id]])

\* Lines 378-401: the list handed to session.add_all.
BuildStations(doc, table) ==
    LET parsed == ParseStations(doc.lines)
        by_id == StationById(parsed)
    IN apply_stations_add(table, apply_station_fixes(parsed), by_id).stations

\* Line 403: the INSERTs of the flush fail when two rows share the primary
\* key id (models.py line 14).
FlushRaises(rows) ==
    \E i, j \in DOMAIN rows : i < j /\ rows[i].id = rows[j].id

\* Lines 410-418: the two trips of each pair of consecutive stations.
LineTrips(line) ==
    LET n == Len(line.stations)
    IN [k \in 1..(2 * (IF n = 0 THEN 0 ELSE n - 1)) |->
          LET i == (k + 1) \div 2
              a_id == line.stations[i].id
              b_id == line.stations[i + 1].id
          IN IF k % 2 = 1 THEN Trip(a_id, b_id, same_line)
                          ELSE Trip(b_id, a_id, same_line)]

RECURSIVE FeedTrips(_)
FeedTrips(lines) ==
    IF lines = <<>> THEN <<>>
    ELSE LineTrips(Head(lines)) \o FeedTrips(Tail(lines))

\* Lines 352-355 without line 355: the reverse triple is not removed.
RemoveSetOneWay(removals) ==
    {<<removals[i][1], removals[i][2], removals[i][3]>> : i \in DOMAIN removals}

\* Lines 352-355.
RemoveSet(removals) ==
    {<<removals[i][1], removals[i][2], removals[i][3]>> : i \in DOMAIN removals} \cup
    {<<removals[i][2], removals[i][1], removals[i][3]>> : i \in DOMAIN removals}

\* Lines 362-364 without line 364: the reverse trip is not appended.
RECURSIVE AppendAddedOneWay(_, _)
AppendAddedOneWay(additions, filtered) ==
    IF additions = <<>> THEN filtered
    ELSE LET a == Head(additions)[1]
             b == Head(additions)[2]
             et == Head(additions)[3]
         IN AppendAddedOneWay(Tail(additions), Append(filtered, Trip(a, b, et)))

\* Lines 362-364.
RECURSIVE AppendAdded(_, _)
AppendAdded(additions, filtered) ==
    IF additions = <<>> THEN filtered
    ELSE LET a == Head(additions)[1]
             b == Head(additions)[2]
             et == Head(additions)[3]
         IN AppendAdded(Tail(additions),
                        Append(Append(filtered, Trip(a, b, et)), Trip(b, a, et)))

\* Line 359 without the class: a trip is dropped when the table names its
\* stations, whatever its class.
KeptAnyClass(remove_set, t) ==
    \A et \in EdgeType : <<t.from_station_id, t.to_station_id, et>> \notin remove_set

\* Line 359: the condition of the list comprehension.
Kept(remove_set, t) ==
    <<t.from_station_id, t.to_station_id, t.edge_type>> \notin remove_set

\* Lines 357-364 in the other order: the additions are appended before the
\* list is filtered.
apply_edge_patches_add_first(removals, additions, rows, trip_list) ==
    IF removals = <<>> /\ additions = <<>> THEN trip_list
    ELSE LET remove_set == RemoveSet(removals)
         IN SelectSeq(AppendAdded(additions, trip_list), LAMBDA t : Kept(remove_set, t))

\* Lines 347-366. The parameter stations is not read by the code.
apply_edge_patches(removals, additions, rows, trip_list) ==
    IF removals = <<>> /\ additions = <<>> THEN trip_list
    ELSE LET remove_set == RemoveSet(removals)
             filtered == SelectSeq(trip_list, LAMBDA t : Kept(remove_set, t))
         IN AppendAdded(additions, filtered)

\* Line 423: the INSERTs of the commit fail when a trip names a station that
\* is no row of stations (the foreign keys of models.py lines 28-29).
CommitRaises(rows, trip_list) ==
    \E i \in DOMAIN trip_list :
        \/ trip_list[i].from_station_id \notin StationKeys(rows)
        \/ trip_list[i].to_station_id \notin StationKeys(rows)

\* No request for /path has been answered.
NoResponse == [status |-> "", detail |-> "", body |-> <<>>]

\* What a call has returned or raised: the exception and the step it left.
NoResult == [raised |-> "", at |-> "", value |-> <<>>]
Raised(exc, at) == [raised |-> exc, at |-> at, value |-> <<>>]
ReturnedValue(v) == [raised |-> "", at |-> "return", value |-> v]

\* ---------------------------------------------------------------- actions
Settings ==
    [minutes_per_segment : {0, minutes_per_segment},
     minutes_per_transfer : {0, minutes_per_segment, minutes_per_transfer}]

RECURSIVE SeqsUpTo(_, _)
SeqsUpTo(S, n) ==
    IF n = 0 THEN {<<>>}
    ELSE LET shorter == SeqsUpTo(S, n - 1)
         IN shorter \cup {Append(q, x) : q \in shorter, x \in S}

Prefix(k) == [i \in 1..k |-> Station(i, "raw", 1)]

TripsOver(k) == SeqsUpTo({Trip(a, b, et) : a \in 1..k, b \in 1..k, et \in EdgeType}, MaxTrips)

DefaultSettings ==
    [minutes_per_segment |-> minutes_per_segment,
     minutes_per_transfer |-> minutes_per_transfer]

\* The feed of two lines, 1-2-3-4 and 5-6, and the table that adds the
\* transfer 3-5: the stations, trips and graph a refresh makes of them.
ScenarioDoc ==
    FeedDoc(<< FeedLine(1, <<FeedStation(1), FeedStation(2), FeedStation(3), FeedStation(4)>>),
               FeedLine(2, <<FeedStation(5), FeedStation(6)>>) >>)

ScenarioTrips ==
    apply_edge_patches(<<>>, << <<3, 5, transfer>> >>, ParseStations(ScenarioDoc.lines),
                       FeedTrips(ScenarioDoc.lines))

ScenarioGraph == build_graph(ParseStations(ScenarioDoc.lines), ScenarioTrips)

\* No call of enrich_database or get_shortest_path has been made.
ServiceInit ==
    /\ db_stations = <<>>
    /\ db_trips = <<>>
    /\ started = FALSE
    /\ enrich_pc = "idle"
    /\ enrich_data = FeedDoc(<<>>)
    /\ enrich_stations = <<>>
    /\ enrich_trips = <<>>
    /\ enrich_result = NoResult
    /\ before = <<<<>>, <<>>>>
    /\ query_pc = "idle"
    /\ from_station_id = 0
    /\ to_station_id = 0
    /\ query_stations = <<>>
    /\ query_trips = <<>>
    /\ query_result = NoResult
    /\ response = NoResponse
    /\ complete = {}
    /\ overlap = FALSE

\* No function is called on its own.
NoCall ==
    /\ args = <<>>
    /\ rets = <<>>

\* No call of shortest_path_by_time is followed step by step.
PathIdle ==
    /\ settings = DefaultSettings
    /\ graph = <<>>
    /\ start_id = 0
    /\ end_id = 0
    /\ best = <<>>
    /\ heap = <<>>
    /\ pc = "idle"
    /\ result = None
    /\ pops = <<>>

PathInit ==
    /\ api = {}
    /\ STATIONS_ADD = <<>>
    /\ EDGE_REMOVE = <<>>
    /\ EDGE_ADD = <<>>
    /\ ServiceInit
    /\ NoCall
    /\ settings \in Settings
    /\ \/ \E k \in 0..NumStations : \E trips \in TripsOver(k) :
             graph = build_graph(Prefix(k), trips)
       \/ graph = ScenarioGraph
    /\ start_id = 0
    /\ end_id = 0
    /\ best = <<>>
    /\ heap = <<>>
    /\ pc = "idle"
    /\ result = None
    /\ pops = <<>>

\* shortest_path_by_time(graph, station_by_id, start_id, end_id) is called.
Call ==
    /\ pc = "idle"
    /\ \E s \in StationIds \cup DOMAIN graph, e \in StationIds \cup DOMAIN graph :
          LET r == Entry(graph, s, e)
          IN /\ start_id' = s
             /\ end_id' = e
             /\ best' = r.best
             /\ heap' = r.heap
             /\ IF r.ret = Continue
                THEN pc' = "loop" /\ result' = result
                ELSE pc' = "done" /\ result' = r.ret
    /\ pops' = <<>>
    /\ UNCHANGED <<settings, graph>>
    /\ UNCHANGED <<tableVars, dbVars, enrichVars, queryVars, callVars>>

\* One iteration of `while heap:` (or its exit with None).
Loop ==
    /\ pc = "loop"
    /\ LET r == LoopBody(settings, graph, end_id, best, heap)
       IN /\ best' = r.best
          /\ heap' = r.heap
          /\ pops' = pops \o r.popped
          /\ IF r.ret = Continue
             THEN pc' = "loop" /\ result' = result
             ELSE pc' = "done" /\ result' = r.ret
    /\ UNCHANGED <<settings, graph, start_id, end_id>>
    /\ UNCHANGED <<tableVars, dbVars, enrichVars, queryVars, callVars>>

PathNext == Call \/ Loop

SpecPath == PathInit /\ [][PathNext]_vars

\* The calls followed to their return: under the configured costs and
\* under costs of zero, where every cycle of the graph costs nothing.
PathFairInit ==
    /\ PathInit
    /\ settings \in {DefaultSettings,
                      [minutes_per_segment |-> 0, minutes_per_transfer |-> 0]}

\* A call that has entered its loop goes on executing it: nothing in the
\* function awaits or blocks.
SpecPathFair == PathFairInit /\ [][PathNext]_vars /\ WF_vars(Loop)

\* ------------------------------------------------ enrich_database, steps
Committed == <<db_stations, db_trips>>

EnrichInFlight == enrich_pc \in {"fetched", "cleared", "flushed"}

\* A call of enrich_database ends and leaves rows committed.
Completes(rows) ==
    /\ complete' = IF query_pc = "stations" \/ overlap
                   THEN complete \cup {rows} ELSE complete
    /\ overlap' = FALSE

\* Line 371: fetch_metro_from_api raises (the API is unreachable, answers
\* with an error status or with no JSON).
FetchRaises ==
    /\ ~EnrichInFlight
    /\ enrich_pc' = "raised"
    /\ enrich_data' = FeedDoc(<<>>)
    /\ enrich_stations' = <<>>
    /\ enrich_trips' = <<>>
    /\ enrich_result' = Raised("HTTPError", "fetch")
    /\ before' = Committed
    /\ UNCHANGED <<pathVars, tableVars, dbVars, queryVars, callVars>>

\* Line 371: the document arrives.
Fetch ==
    /\ ~EnrichInFlight
    /\ \E doc \in api : enrich_data' = doc
    /\ enrich_pc' = "fetched"
    /\ enrich_stations' = <<>>
    /\ enrich_trips' = <<>>
    /\ enrich_result' = NoResult
    /\ before' = Committed
    /\ overlap' = (query_pc = "stations")
    /\ UNCHANGED <<query_pc, from_station_id, to_station_id, query_stations,
                   query_trips, query_result, response, complete>>
    /\ UNCHANGED <<pathVars, tableVars, dbVars, callVars>>

\* Lines 374-376: both tables are emptied and the transaction is committed.
ClearExisting ==
    /\ enrich_pc = "fetched"
    /\ db_stations' = <<>>
    /\ db_trips' = <<>>
    /\ enrich_pc' = "cleared"
    /\ UNCHANGED <<started, enrich_data, enrich_stations, enrich_trips,
                   enrich_result, before>>
    /\ UNCHANGED <<pathVars, tableVars, queryVars, callVars>>

\* Lines 378-403: the station rows are built and flushed; a malformed
\* document raises KeyError, a repeated id fails the flush. The session is
\* rolled back (database.py lines 24-26) and the tables stay as committed.
StationsFlush ==
    /\ enrich_pc = "cleared"
    /\ IF ParseRaises(enrich_data)
       THEN /\ enrich_pc' = "raised"
            /\ enrich_result' = Raised("KeyError", "stations")
            /\ enrich_stations' = enrich_stations
            /\ Completes(Committed)
       ELSE LET rows == BuildStations(enrich_data, STATIONS_ADD)
            IN /\ enrich_stations' = rows
               /\ IF FlushRaises(rows)
                  THEN /\ enrich_pc' = "raised"
                       /\ enrich_result' = Raised("IntegrityError", "flush")
                       /\ Completes(Committed)
                  ELSE /\ enrich_pc' = "flushed"
                       /\ enrich_result' = enrich_result
                       /\ UNCHANGED <<complete, overlap>>
    /\ UNCHANGED <<enrich_data, enrich_trips, before>>
    /\ UNCHANGED <<pathVars, tableVars, dbVars, callVars>>
    /\ UNCHANGED <<query_pc, from_station_id, to_station_id, query_stations,
                   query_trips, query_result, response>>

\* Lines 405-424: the trips are built, patched and committed with the
\* stations; a trip that names no station row fails the commit.
TripsCommit ==
    /\ enrich_pc = "flushed"
    /\ LET patched == apply_edge_patches(EDGE_REMOVE, EDGE_ADD, enrich_stations,
                                          FeedTrips(enrich_data.lines))
       IN /\ enrich_trips' = patched
          /\ IF CommitRaises(enrich_stations, patched)
             THEN /\ enrich_pc' = "raised"
                  /\ enrich_result' = Raised("IntegrityError", "commit")
                  /\ UNCHANGED dbVars
                  /\ Completes(Committed)
             ELSE /\ enrich_pc' = "returned"
                  /\ enrich_result' = ReturnedValue(<<Len(enrich_stations), Len(patched)>>)
                  /\ db_stations' = enrich_stations
                  /\ db_trips' = patched
                  /\ started' = TRUE
                  /\ Completes(<<enrich_stations, patched>>)
    /\ UNCHANGED <<enrich_data, enrich_stations, before>>
    /\ UNCHANGED <<pathVars, tableVars, callVars>>
    /\ UNCHANGED <<query_pc, from_station_id, to_station_id, query_stations,
                   query_trips, query_result, response>>

EnrichNext == FetchRaises \/ Fetch \/ ClearExisting \/ StationsFlush \/ TripsCommit

\* --------------------------------------------- get_shortest_path, steps
\* Lines 480-481: the request arrives and the station rows are read.
QueryStations ==
    /\ started
    /\ query_pc \in {"idle", "responded"}
    /\ \E f \in StationIds, t \in StationIds :
          /\ from_station_id' = f
          /\ to_station_id' = t
    /\ query_stations' = db_stations
    /\ query_trips' = <<>>
    /\ query_result' = NoResult
    /\ response' = NoResponse
    /\ query_pc' = "stations"
    /\ complete' = {IF enrich_pc \in {"cleared", "flushed"} THEN before ELSE Committed}
    /\ overlap' = EnrichInFlight
    /\ UNCHANGED <<pathVars, tableVars, dbVars, enrichVars, callVars>>

\* Lines 482-499: the trip rows are read, the graph is built and searched.
QueryRoute ==
    /\ query_pc = "stations"
    /\ query_trips' = db_trips
    /\ query_result' =
          IF build_graph_raises(query_stations, db_trips)
          THEN Raised("KeyError", "build_graph")
          ELSE shortest_path_by_time(settings, build_graph(query_stations, db_trips),
                                     from_station_id, to_station_id)
    /\ query_pc' = "done"
    /\ UNCHANGED <<from_station_id, to_station_id, query_stations, response,
                   complete, overlap>>
    /\ UNCHANGED <<pathVars, tableVars, dbVars, enrichVars, callVars>>

\* schemas.py: the fields of StationOut and of PathResponse; none has a
\* default, so the constructor raises ValidationError when one is not given.
StationOut_fields == {"id", "name", "line_name", "line_color"}

PathResponse_fields ==
    {"from_station", "to_station", "path", "total_steps", "stations_count",
     "transfers_count", "total_time_minutes"}

Validates(fields, kwargs) == fields \subseteq DOMAIN kwargs

\* main.py lines 74-79: the PathStep of a path element; the row's line_id
\* stands for its line_name.
PathStep(by_id, step) ==
    [station_id |-> by_id[step[1]].id, station_name |-> by_id[step[1]].name,
     line_name |-> by_id[step[1]].line_id, is_transfer |-> step[2]]

\* main.py lines 82-86 and 87-91: the keyword arguments given to StationOut.
StationOut_kwargs(row) == [id |-> row.id, name |-> row.name, line_name |-> row.line_id]

\* main.py lines 81-96: the keyword arguments given to PathResponse.
PathResponse_kwargs(by_id, f, t, found) ==
    LET steps == [k \in DOMAIN found.path |-> PathStep(by_id, found.path[k])]
    IN [from_station |-> StationOut_kwargs(by_id[f]),
        to_station |-> StationOut_kwargs(by_id[t]),
        path |-> steps,
        total_steps |-> Len(steps) - 1,
        stations_count |-> Len(steps),
        total_time_minutes |-> found.total_minutes]

\* main.py lines 65-96: the answer to the request. An exception that leaves
\* the handler is answered with status 500, HTTPException with its status.
PathAnswer(by_id, f, t, got) ==
    IF "raised" \in DOMAIN got
    THEN [status |-> "500", detail |-> got.raised, body |-> <<>>]
    ELSE IF got = None
    THEN [status |-> "404", detail |-> "HTTPException", body |-> <<>>]
    ELSE LET kwargs == PathResponse_kwargs(by_id, f, t, got)
         IN IF /\ Validates(StationOut_fields, kwargs.from_station)
               /\ Validates(StationOut_fields, kwargs.to_station)
               /\ Validates(PathResponse_fields, kwargs)
            THEN [status |-> "200", detail |-> "", body |-> kwargs]
            ELSE [status |-> "500", detail |-> "ValidationError", body |-> <<>>]

\* main.py lines 66-96: the handler of /path answers the request.
Respond ==
    /\ query_pc = "done"
    /\ response' = PathAnswer(StationById(query_stations), from_station_id,
                              to_station_id, query_result)
    /\ query_pc' = "responded"
    /\ UNCHANGED <<from_station_id, to_station_id, query_stations, query_trips,
                   query_result, complete, overlap>>
    /\ UNCHANGED <<pathVars, tableVars, dbVars, enrichVars, callVars>>

QueryNext == QueryStations \/ QueryRoute \/ Respond

\* ------------------------------------------------------- specifications
\* The tables of metro.py, as far as the stations of the model go.
ExampleTables ==
    {[add |-> <<>>, remove |-> <<>>, edges |-> <<>>],
     [add |-> <<Station(3, "added", 2)>>,
      remove |-> << <<1, 2, same_line>> >>,
      edges |-> << <<2, 3, transfer>> >>]}

\* Documents the API answers with: lines 1-2 and 1-2-3, two lines, no
\* station at all, a station entry without id, a line without id.
ExampleDocs ==
    {FeedDoc(<< FeedLine(1, <<FeedStation(1), FeedStation(2)>>) >>),
     FeedDoc(<< FeedLine(1, <<FeedStation(1), FeedStation(2), FeedStation(3)>>) >>),
     FeedDoc(<< FeedLine(1, <<FeedStation(2), FeedStation(1)>>),
                FeedLine(2, <<FeedStation(3)>>) >>),
     FeedDoc(<<>>),
     FeedDoc(<< FeedLine(1, <<FeedStation(1), FeedStationNoId>>) >>),
     FeedDoc(<< FeedLineNoId(<<FeedStation(1), FeedStation(2)>>) >>)}

RefreshInit ==
    /\ api = ExampleDocs
    /\ \E tb \in ExampleTables :
          /\ STATIONS_ADD = tb.add
          /\ EDGE_REMOVE = tb.remove
          /\ EDGE_ADD = tb.edges
    /\ ServiceInit
    /\ PathIdle
    /\ NoCall

RefreshNext == EnrichNext \/ QueryNext

\* Requests for /admin/refresh and /path, served on one event loop.
SpecRefresh == RefreshInit /\ [][RefreshNext]_vars

\* Every document of one line of at most MaxLineLen station entries, each a
\* station of the model or an entry without id; the document of no line;
\* and every document of two lines of one station each.
PipelineDocs ==
    {FeedDoc(<<>>)} \cup
    {FeedDoc(<< FeedLine(1, entries) >>) :
        entries \in SeqsUpTo({FeedStation(i) : i \in StationIds} \cup {FeedStationNoId},
                             MaxLineLen)} \cup
    {FeedDoc(<< FeedLine(1, <<FeedStation(i)>>), FeedLine(2, <<FeedStation(j)>>) >>) :
        i \in StationIds, j \in StationIds}

\* The tables name a pair of stations once; both orders mean the same pair.
PatchTriples ==
    {<<a, b, et>> : a \in StationIds, b \in StationIds, et \in EdgeType} \cap
    {t \in StationIds \X StationIds \X EdgeType : t[1] <= t[2]}

\* No removal or one.
RemoveTables == {<<>>} \cup {<<t>> : t \in PatchTriples}

\* No addition, one, or one that is listed twice, the second time in either
\* direction.
AddTables ==
    {<<>>} \cup {<<t>> : t \in PatchTriples} \cup {<<t, t>> : t \in PatchTriples}
           \cup {<<t, <<t[2], t[1], t[3]>> >> : t \in PatchTriples}

\* No station to insert or one, on a line of its own.
StationTables == {<<>>} \cup {<<Station(i, "added", 2)>> : i \in StationIds}

PipelineInit ==
    /\ \E doc \in PipelineDocs : api = {doc}
    /\ STATIONS_ADD \in StationTables
    /\ EDGE_REMOVE \in RemoveTables
    /\ EDGE_ADD \in AddTables
    /\ ServiceInit
    /\ PathIdle
    /\ NoCall

\* Calls of enrich_database one after the other, for every document and
\* every table of the bounds.
SpecPipeline == PipelineInit /\ [][EnrichNext]_vars

\* ------------------------------------- _apply_edge_patches, on its own
\* The tables name no pair, or one pair in EDGE_REMOVE, in EDGE_ADD or in
\* both.
OnePairTables ==
    {[remove |-> <<>>, edges |-> <<>>]} \cup
    UNION {{[remove |-> <<t>>, edges |-> <<>>],
            [remove |-> <<>>, edges |-> <<t>>],
            [remove |-> <<t>>, edges |-> <<t>>]} : t \in PatchTriples}

\* _apply_edge_patches(stations, trips) for every list of at most MaxTrips
\* trips of either class between the stations of the model.
EdgePatchesInit ==
    /\ api = {}
    /\ STATIONS_ADD = <<>>
    /\ \E tb \in OnePairTables :
          /\ EDGE_REMOVE = tb.remove
          /\ EDGE_ADD = tb.edges
    /\ ServiceInit
    /\ PathIdle
    /\ \E trips \in TripsOver(NumStations) :
          args = [stations |-> Prefix(NumStations), trips |-> trips]
    /\ rets = <<>>

\* The function is applied to the arguments, then to what it returned.
ApplyEdgePatches ==
    /\ "trips" \in DOMAIN args
    /\ Len(rets) < 2
    /\ rets' = Append(rets,
                      apply_edge_patches(EDGE_REMOVE, EDGE_ADD, args.stations,
                                         IF rets = <<>> THEN args.trips
                                                        ELSE rets[Len(rets)]))
    /\ UNCHANGED args
    /\ UNCHANGED <<pathVars, tableVars, dbVars, enrichVars, queryVars>>

SpecEdgePatches == EdgePatchesInit /\ [][ApplyEdgePatches]_vars

\* ------------------------------------- _apply_stations_add, on its own
\* _apply_stations_add(stations, station_by_id) for the rows of every line
\* of at most MaxLineLen station entries, with the dict that lines 397-398
\* build of them, and every table of at most MaxInsertions rows.
StationsAddInit ==
    /\ api = {}
    /\ STATIONS_ADD \in SeqsUpTo({Station(i, "added", 2) : i \in StationIds}, MaxInsertions)
    /\ EDGE_REMOVE = <<>>
    /\ EDGE_ADD = <<>>
    /\ ServiceInit
    /\ PathIdle
    /\ \E entries \in SeqsUpTo({FeedStation(i) : i \in StationIds}, MaxLineLen) :
          LET rows == apply_station_fixes(LineStations(FeedLine(1, entries)))
          IN args = [stations |-> rows, station_by_id |-> StationById(rows)]
    /\ rets = <<>>

\* The function is applied to the two arguments, then once more to the
\* list and the dict as its first call left them.
ApplyStationsAdd ==
    /\ "station_by_id" \in DOMAIN args
    /\ Len(rets) < 2
    /\ LET cur == IF rets = <<>> THEN args ELSE rets[Len(rets)]
       IN rets' = Append(rets, apply_stations_add(STATIONS_ADD, cur.stations,
                                                  cur.station_by_id))
    /\ UNCHANGED args
    /\ UNCHANGED <<pathVars, tableVars, dbVars, enrichVars, queryVars>>

SpecStationsAdd == StationsAddInit /\ [][ApplyStationsAdd]_vars

\* -------------------- shortest_path_by_time under two transfer costs
\* Two values of settings that differ in minutes_per_transfer only, the
\* second being the greater.
SettingsPairs ==
    {p \in Settings \X Settings :
        /\ p[1].minutes_per_segment = p[2].minutes_per_segment
        /\ p[1].minutes_per_transfer < p[2].minutes_per_transfer}

\* shortest_path_by_time(graph, station_by_id, start_id, end_id) for every
\* graph of NumStations stations and at most MaxTrips trips, every pair of
\* stations and every such pair of settings.
TransferCostInit ==
    /\ api = {}
    /\ STATIONS_ADD = <<>>
    /\ EDGE_REMOVE = <<>>
    /\ EDGE_ADD = <<>>
    /\ ServiceInit
    /\ PathIdle
    /\ \E trips \in TripsOver(NumStations), s \in StationIds, e \in StationIds,
          p \in SettingsPairs :
          args = [graph |-> build_graph(Prefix(NumStations), trips),
                  start_id |-> s, end_id |-> e, settings |-> p]
    /\ rets = <<>>

\* The function is called under the first settings, then under the second.
CallUnderSettings ==
    /\ "settings" \in DOMAIN args
    /\ Len(rets) < 2
    /\ rets' = Append(rets, shortest_path_by_time(args.settings[Len(rets) + 1], args.graph,
                                                  args.start_id, args.end_id))
    /\ UNCHANGED args
    /\ UNCHANGED <<pathVars, tableVars, dbVars, enrichVars, queryVars>>

SpecTransferCost == TransferCostInit /\ [][CallUnderSettings]_vars

\* --------------------------------- scripts/visualize_metro.py, lines 68-75
\* Latitudes and longitudes are written in units of 0.0005 degrees, so that
\* the threshold of 0.001 degrees (line 22) is 2.
TRANSFER_THRESHOLD == 2

\* Lines 27-28 without the square root: the square of distance_deg.
distance_deg_squared(lat1, lng1, lat2, lng2) ==
    (lat1 - lat2) * (lat1 - lat2) + (lng1 - lng2) * (lng1 - lng2)

\* Line 73 with <= for <.
WithinOrAtThreshold(a, b) ==
    distance_deg_squared(a.lat, a.lng, b.lat, b.lng)
        <= TRANSFER_THRESHOLD * TRANSFER_THRESHOLD

\* Line 73: distance_deg(...) < TRANSFER_THRESHOLD, both sides squared.
WithinThreshold(a, b) ==
    distance_deg_squared(a.lat, a.lng, b.lat, b.lng)
        < TRANSFER_THRESHOLD * TRANSFER_THRESHOLD

\* Lines 70-75: the loop over b in stations[i + 1:], from position j on.
RECURSIVE transfer_edges_inner(_, _, _, _)
transfer_edges_inner(stations, i, j, edges) ==
    IF j > Len(stations) THEN edges
    ELSE LET a == stations[i]
             b == stations[j]
         IN IF a.line_id = b.line_id
            THEN transfer_edges_inner(stations, i, j + 1, edges)
            ELSE IF WithinThreshold(a, b)
            THEN transfer_edges_inner(stations, i, j + 1,
                    Append(Append(edges, <<a.id, b.id, TRUE>>), <<b.id, a.id, TRUE>>))
            ELSE transfer_edges_inner(stations, i, j + 1, edges)

\* Lines 69-75: the loop over the stations, from position i on.
RECURSIVE transfer_edges(_, _, _)
transfer_edges(stations, i, edges) ==
    IF i > Len(stations) THEN edges
    ELSE transfer_edges(stations, i + 1, transfer_edges_inner(stations, i, i + 1, edges))

\* The station dicts of lines 47-55, as far as lines 68-75 read them, on a
\* grid of three latitudes and two longitudes, on two lines.
Points == [id : 1..3, lat : 0..2, lng : 0..1, line_id : 1..2]

\* Lines 68-75 for every list of at most MaxPoints stations.
ProximityInit ==
    /\ api = {}
    /\ STATIONS_ADD = <<>>
    /\ EDGE_REMOVE = <<>>
    /\ EDGE_ADD = <<>>
    /\ ServiceInit
    /\ PathIdle
    /\ \E n \in 0..MaxPoints : \E stations \in [1..n -> Points] :
          args = [stations |-> stations]
    /\ rets = <<>>

\* The transfer edges are appended to the edges of the lines (here none).
InferTransfers ==
    /\ DOMAIN args = {"stations"}
    /\ rets = <<>>
    /\ rets' = <<transfer_edges(args.stations, 1, <<>>)>>
    /\ UNCHANGED args
    /\ UNCHANGED <<pathVars, tableVars, dbVars, enrichVars, queryVars>>

SpecProximity == ProximityInit /\ [][InferTransfers]_vars

\* ------------------------------------------------- walks, for the claims
\* The (end station, total cost) of every directed walk of at most k edges
\* that leaves s; each edge of an adjacency list costs what its class costs.
RECURSIVE Walks(_, _, _, _)
Walks(g, cfg, s, k) ==
    IF k = 0 THEN {<<s, 0>>}
    ELSE LET W == Walks(g, cfg, s, k - 1)
         IN W \cup UNION {
                {<<g[w[1]][i][1], w[2] + edge_minutes(cfg, g[w[1]][i][2])>> :
                    i \in DOMAIN g[w[1]]} : w \in W}

\* A walk that repeats a station is no cheaper than the walk without the
\* repetition, so the walks of at most |keys| edges hold every minimum.
AllWalks == Walks(graph, settings, start_id, Cardinality(DOMAIN graph))

WalkCostsToEnd == {w[2] : w \in {x \in AllWalks : x[1] = end_id}}

Reachable == WalkCostsToEnd # {}

MinWalkCost == CHOOSE c \in WalkCostsToEnd : \A d \in WalkCostsToEnd : c <= d

Returned == pc = "done"

BothKeys == start_id \in DOMAIN graph /\ end_id \in DOMAIN graph

\* ------------------------------------------------------------------ claims
\* C1: when end_id is reachable from start_id, the total_minutes returned
\* is the least total cost of a directed walk from start_id to end_id.
C1_Optimal ==
    (Returned /\ BothKeys /\ Reachable) =>
        (result # None /\ result.total_minutes = MinWalkCost)

\* C1 witness: a path was returned although a dearer walk to end_id exists.
C1_Witness ==
    /\ Returned /\ BothKeys /\ start_id # end_id
    /\ result # None
    /\ \E c \in WalkCostsToEnd : c > result.total_minutes

\* The elements of a path after its first that carry the flag f.
Flagged(path, f) == {k \in 2..Len(path) : path[k][2] = f}

\* C11: the total_minutes returned with a path is the number of its elements
\* after the origin flagged False times the segment cost plus the number of
\* its elements flagged True times the transfer cost; on the lines 1-2-3-4
\* and 5-6 with the transfer 3-5, costs 3 and 6, the query from 1 to 6
\* returns the path 1, 2, 3, 5, 6 with total 15.
C11_TotalCountsFlags ==
    /\ (Returned /\ result # None) =>
          /\ result.path[1][2] = FALSE
          /\ result.total_minutes =
                Cardinality(Flagged(result.path, FALSE)) * settings.minutes_per_segment
                + Cardinality(Flagged(result.path, TRUE)) * settings.minutes_per_transfer
    /\ (Returned /\ graph = ScenarioGraph /\ settings = DefaultSettings
           /\ start_id = 1 /\ end_id = 6) =>
          result = Found(<< <<1, FALSE>>, <<2, FALSE>>, <<3, FALSE>>, <<5, TRUE>>,
                            <<6, FALSE>> >>, 15)

\* C11 witness: that query has returned a path with one transfer.
C11_Witness ==
    /\ Returned /\ graph = ScenarioGraph /\ settings = DefaultSettings
    /\ start_id = 1 /\ end_id = 6
    /\ result # None
    /\ Cardinality(Flagged(result.path, TRUE)) = 1

\* C7: None is returned whenever start_id or end_id is no key of the graph,
\* so every query on the graph without keys returns None.
C7_UnknownStationNotFound ==
    (Returned /\ ~BothKeys) => result = None

\* C7 witness: a query from a station with edges to a station that is no
\* key has returned None.
C7_Witness ==
    /\ Returned /\ result = None
    /\ start_id \in DOMAIN graph /\ end_id \notin DOMAIN graph
    /\ graph[start_id] # <<>>

\* C8: two different keys with no directed walk between them give None.
C8_UnreachableNotFound ==
    (Returned /\ BothKeys /\ start_id # end_id /\ ~Reachable) => result = None

\* C8 witness: the search left start_id over an edge, emptied the heap and
\* returned None.
C8_Witness ==
    /\ Returned /\ BothKeys /\ start_id # end_id /\ ~Reachable
    /\ graph[start_id] # <<>>
    /\ \E n \in DOMAIN best : n # start_id
    /\ result = None

\* C9: the query from a key x to x returns the path [(x, False)], total 0.
C9_SameStation ==
    (Returned /\ BothKeys /\ start_id = end_id) =>
        result = Found(<< <<start_id, FALSE>> >>, 0)

\* C9 witness: such a query on a station that has a self-loop.
C9_Witness ==
    /\ Returned /\ BothKeys /\ start_id = end_id
    /\ \E i \in DOMAIN graph[start_id] : graph[start_id][i][1] = start_id
    /\ result # None

\* C10: a returned path starts with (start_id, False), ends at end_id, and
\* each later element (s, flag) is an edge (s, flag) of its predecessor.
C10_PathFollowsEdges ==
    (Returned /\ result # None) =>
        LET path == result.path
        IN /\ Len(path) >= 1
           /\ path[1] = <<start_id, FALSE>>
           /\ path[Len(path)][1] = end_id
           /\ \A k \in 2..Len(path) :
                 \E i \in DOMAIN graph[path[k - 1][1]] :
                    graph[path[k - 1][1]][i] = path[k]

\* C10 witness: a returned path of three stations entered through a transfer.
C10_Witness ==
    /\ Returned /\ result # None
    /\ Len(result.path) = 3
    /\ \E k \in 2..3 : result.path[k][2] = TRUE

\* C2: a refresh that failed because the feed was unreachable or malformed
\* leaves the committed station and trip rows as they were when it began.
C2_FailedRefreshKeepsSnapshot ==
    (enrich_pc = "raised" /\ enrich_result.raised \in {"HTTPError", "KeyError"}) =>
        Committed = before

\* C3: once the refreshes that ran beside a query have ended, the station
\* rows and trip rows the query has read are together the rows committed
\* before one of them or the rows one of them left committed.
C3_QueryReadsOneSnapshot ==
    (query_pc = "done" /\ ~overlap) => <<query_stations, query_trips>> \in complete

\* C12: the answer to a route query that found a path carries a transfer
\* count equal to the number of path elements flagged True and an edge
\* count equal to the number of stations of the path minus one.
C12_ResponseCarriesCounts ==
    (query_pc = "responded" /\ "path" \in DOMAIN query_result) =>
        /\ response.status = "200"
        /\ "transfers_count" \in DOMAIN response.body
        /\ response.body.transfers_count =
              Cardinality(Flagged(query_result.path, TRUE))
        /\ response.body.total_steps = Len(query_result.path) - 1

\* ------------------------------------------------ claims on the pipeline
\* The call of enrich_database has gone through _apply_edge_patches.
Patched == enrich_result.at \in {"commit", "return"}

TripleOf(t) == <<t.from_station_id, t.to_station_id, t.edge_type>>

Triples(trip_list) == {TripleOf(trip_list[i]) : i \in DOMAIN trip_list}

Reverse(t) == <<t[2], t[1], t[3]>>

Symmetric(trip_list) ==
    \A t \in Triples(trip_list) : Reverse(t) \in Triples(trip_list)

Dangling(rows, trip_list) ==
    \E t \in Triples(trip_list) :
        t[1] \notin StationKeys(rows) \/ t[2] \notin StationKeys(rows)

HasDuplicate(trip_list) ==
    \E i, j \in DOMAIN trip_list : i < j /\ TripleOf(trip_list[i]) = TripleOf(trip_list[j])

AddNamesUnknown ==
    \E i \in DOMAIN EDGE_ADD :
        \/ EDGE_ADD[i][1] \notin StationKeys(enrich_stations)
        \/ EDGE_ADD[i][2] \notin StationKeys(enrich_stations)

\* C4: when an addition names a station that is no row after the insertions,
\* the correction fails with an error and the trips it hands on name only
\* station rows.
C4_UnknownAdditionFails ==
    (Patched /\ AddNamesUnknown) =>
        (enrich_result.raised # "" /\ ~Dangling(enrich_stations, enrich_trips))

\* C5: the trips the pipeline produces, and the trips it commits, hold the
\* reverse of each of their (from, to, class).
C5_Symmetric ==
    /\ Patched => Symmetric(enrich_trips)
    /\ Symmetric(db_trips)

\* C5 witness: a refresh has committed trips after a removal that matched a
\* segment of the feed and an addition.
C5_Witness ==
    /\ enrich_pc = "returned"
    /\ db_trips # <<>>
    /\ EDGE_ADD # <<>>
    /\ \E i \in DOMAIN EDGE_REMOVE :
          EDGE_REMOVE[i] \in Triples(FeedTrips(enrich_data.lines))

\* C6: no two trips of the corrected list a refresh has committed share
\* (from, to, class).
C6_NoDuplicateTriples ==
    ~HasDuplicate(db_trips)

\* The segments of the feed that no removal names, in either direction.
Surviving ==
    {t \in Triples(FeedTrips(enrich_data.lines)) :
        \A i \in DOMAIN EDGE_REMOVE : EDGE_REMOVE[i] # t /\ EDGE_REMOVE[i] # Reverse(t)}

\* An addition that joins a station to itself, that names a surviving
\* segment of the feed, or that another addition names too.
AdditionRepeats ==
    \E i \in DOMAIN EDGE_ADD :
        \/ EDGE_ADD[i][1] = EDGE_ADD[i][2]
        \/ EDGE_ADD[i] \in Surviving
        \/ Reverse(EDGE_ADD[i]) \in Surviving
        \/ \E j \in DOMAIN EDGE_ADD :
              j # i /\ EDGE_ADD[j] \in {EDGE_ADD[i], Reverse(EDGE_ADD[i])}

\* C6 as amended: two trips of the corrected list share (from, to, class)
\* exactly when the surviving segments of the feed already do, or an
\* addition joins a station to itself, names a surviving segment or is
\* named by another addition too.
C6_DuplicatesOnlyFromAdditions ==
    Patched =>
        (HasDuplicate(enrich_trips) <=>
            (\/ HasDuplicate(SelectSeq(FeedTrips(enrich_data.lines),
                                       LAMBDA t : TripleOf(t) \in Surviving))
             \/ AdditionRepeats))

\* C6 witness: a refresh has committed the trips of a feed with a segment
\* and of an addition that names other stations; no triple is repeated.
C6_Witness ==
    /\ enrich_pc = "returned"
    /\ Surviving # {}
    /\ EDGE_ADD # <<>>
    /\ ~HasDuplicate(db_trips)

\* A removal and an addition that name the same pair of stations and the
\* same class, in either direction.
SamePair(r, a) == r \in {a, Reverse(a)}

\* C13: when a removal and an addition name the same pair and class, the
\* corrected trips hold both directed trips of that pair and class.
C13_RemoveThenAdd ==
    Patched =>
        \A i \in DOMAIN EDGE_REMOVE, j \in DOMAIN EDGE_ADD :
            SamePair(EDGE_REMOVE[i], EDGE_ADD[j]) =>
                {EDGE_ADD[j], Reverse(EDGE_ADD[j])} \subseteq Triples(enrich_trips)

\* C13 witness: a refresh has committed the trips of a feed whose segment
\* is named by the removal and by the addition; the removal dropped the
\* feed's two trips and the addition appended its two.
C13_Witness ==
    /\ enrich_pc = "returned"
    /\ \E i \in DOMAIN EDGE_REMOVE, j \in DOMAIN EDGE_ADD :
          /\ SamePair(EDGE_REMOVE[i], EDGE_ADD[j])
          /\ EDGE_ADD[j][1] # EDGE_ADD[j][2]
          /\ EDGE_ADD[j] \in Triples(FeedTrips(enrich_data.lines))
    /\ Len(EDGE_ADD) = 1
    /\ Len(db_trips) = Len(FeedTrips(enrich_data.lines))
    /\ ~HasDuplicate(db_trips)

\* The positions of the rows of a station list that carry the id.
RowsOf(rows, id) == {k \in DOMAIN rows : rows[k].id = id}

\* The call of enrich_database has built its list stations (line 401).
StationsBuilt ==
    \/ enrich_pc \in {"flushed", "returned"}
    \/ enrich_pc = "raised" /\ enrich_result.at \in {"flush", "commit"}

\* The lines of the document that hold a station entry with the id.
LinesWith(doc, id) ==
    {i \in DOMAIN doc.lines :
        \E j \in DOMAIN doc.lines[i].stations : doc.lines[i].stations[j].id = id}

\* C18: for a station id that is in more than one line block of the feed,
\* the refresh builds one station row, with the line of the id's last
\* occurrence, and returns a station count that counts the id once.
C18_LastOccurrenceWins ==
    StationsBuilt =>
        \A id \in StationIds :
            Cardinality(LinesWith(enrich_data, id)) > 1 =>
                /\ Cardinality(RowsOf(enrich_stations, id)) = 1
                /\ \A k \in RowsOf(enrich_stations, id) :
                      \A i \in LinesWith(enrich_data, id) :
                         i <= enrich_stations[k].line_id
                /\ enrich_pc = "returned"
                /\ enrich_result.value[1] = Cardinality(StationKeys(enrich_stations))

\* ------------------------------------ claims on _apply_edge_patches
\* A removal entry names the stations of the trip t, in either direction,
\* and its class.
Named(t) ==
    \E i \in DOMAIN EDGE_REMOVE :
        /\ EDGE_REMOVE[i][3] = t.edge_type
        /\ {EDGE_REMOVE[i][1], EDGE_REMOVE[i][2]} = {t.from_station_id, t.to_station_id}

\* What the first call returned before the trips of EDGE_ADD.
FilteredPart == SubSeq(rets[1], 1, Len(rets[1]) - 2 * Len(EDGE_ADD))

\* C14: the trips that come through the removal are the incoming trips, in
\* their order, without those whose stations (in either direction) and
\* class a removal entry names; trips of the other class and of other pairs
\* stay, and when no trip is named the incoming list comes through whole.
C14_RemovalDropsOnlyNamed ==
    Len(rets) >= 1 =>
        /\ FilteredPart = SelectSeq(args.trips, LAMBDA t : ~Named(t))
        /\ (\A k \in DOMAIN args.trips : ~Named(args.trips[k])) =>
               FilteredPart = args.trips

\* C14 witness: the removal (a, b, class) met a trip (b, a, class) and a
\* trip between a and b of the other class; the first was dropped and the
\* second came through.
C14_Witness ==
    /\ Len(rets) >= 1
    /\ Len(EDGE_REMOVE) = 1
    /\ EDGE_REMOVE[1][1] # EDGE_REMOVE[1][2]
    /\ Len(args.trips) = 2
    /\ TripleOf(args.trips[1]) = Reverse(EDGE_REMOVE[1])
    /\ args.trips[2].from_station_id = EDGE_REMOVE[1][1]
    /\ args.trips[2].to_station_id = EDGE_REMOVE[1][2]
    /\ args.trips[2].edge_type # EDGE_REMOVE[1][3]
    /\ FilteredPart = <<args.trips[2]>>

Multiplicity(trip_list, triple) ==
    Cardinality({k \in DOMAIN trip_list : TripleOf(trip_list[k]) = triple})

\* C16: _apply_edge_patches applied to the list it returned gives a list
\* in which every (from, to, class) occurs as often as in that list.
C16_ReapplyKeepsMultiset ==
    Len(rets) = 2 =>
        \A t \in Triples(rets[1]) \cup Triples(rets[2]) :
            Multiplicity(rets[2], t) = Multiplicity(rets[1], t)

\* ---------------------------- claims on the two transfer costs
\* C17: for one graph, one segment cost and one pair of stations with a
\* route, the total returned under the greater transfer cost is not less
\* than the total under the smaller one, and the path returned under the
\* greater cost has no more elements flagged True.
C17_TransferCostMonotone ==
    (Len(rets) = 2 /\ rets[1] # None) =>
        /\ rets[2] # None
        /\ rets[2].total_minutes >= rets[1].total_minutes
        /\ Cardinality(Flagged(rets[2].path, TRUE))
              <= Cardinality(Flagged(rets[1].path, TRUE))

\* C17 witness: the dearer transfer made the search return a path with
\* fewer transfers and a greater total.
C17_Witness ==
    /\ Len(rets) = 2
    /\ rets[1] # None
    /\ rets[2] # None
    /\ rets[2].total_minutes > rets[1].total_minutes
    /\ Cardinality(Flagged(rets[2].path, TRUE))
          < Cardinality(Flagged(rets[1].path, TRUE))

\* ------------------------------------ claims on the proximity inference
\* The pairs of positions of a station list whose stations are on different
\* lines and closer than the threshold.
ClosePairs(stations) ==
    {p \in (DOMAIN stations) \X (DOMAIN stations) :
        /\ p[1] < p[2]
        /\ stations[p[1]].line_id # stations[p[2]].line_id
        /\ (stations[p[1]].lat - stations[p[2]].lat)
              * (stations[p[1]].lat - stations[p[2]].lat)
           + (stations[p[1]].lng - stations[p[2]].lng)
              * (stations[p[1]].lng - stations[p[2]].lng)
           < TRANSFER_THRESHOLD * TRANSFER_THRESHOLD}

\* How often a list holds the element x.
Occurrences(list, x) == Cardinality({k \in DOMAIN list : list[k] = x})

\* C19: every edge emitted is a transfer edge; the edge from x to y is
\* emitted once for each pair of stations x, y on different lines that are
\* closer than the threshold, in each direction, and not at all for a
\* pair on one line or at a distance equal to or above the threshold.
C19_ProximityPairs ==
    Len(rets) = 1 =>
        LET stations == args.stations
            ids == {stations[k].id : k \in DOMAIN stations}
        IN /\ \A k \in DOMAIN rets[1] : rets[1][k][3] = TRUE
           /\ \A x \in ids, y \in ids :
                 Occurrences(rets[1], <<x, y, TRUE>>) =
                    Cardinality({p \in ClosePairs(stations) :
                                    stations[p[1]].id = x /\ stations[p[2]].id = y})
                    + Cardinality({p \in ClosePairs(stations) :
                                    stations[p[1]].id = y /\ stations[p[2]].id = x})

\* C19 witness: of three stations with three ids, the first and the second
\* are close and on different lines, the first and the third are on
\* different lines at exactly the threshold, the second and the third are
\* close on one line; only the edges 1-2 were emitted, once each.
C19_Witness ==
    /\ Len(rets) = 1
    /\ Len(args.stations) = 3
    /\ LET a == args.stations[1]
           b == args.stations[2]
           c == args.stations[3]
       IN /\ Cardinality({a.id, b.id, c.id}) = 3
          /\ a.line_id # b.line_id /\ b.line_id = c.line_id
          /\ a.lng = b.lng /\ a.lat - b.lat = 1
          /\ a.lng = c.lng /\ a.lat - c.lat = TRANSFER_THRESHOLD
          /\ rets[1] = << <<a.id, b.id, TRUE>>, <<b.id, a.id, TRUE>> >>

\* ------------------------------------ claims on the loop of the search
\* C20: in one call no station has its outgoing edges relaxed twice: a
\* popped entry whose time exceeds the best recorded for its station is
\* discarded, and of the popped entries of one station at most one has a
\* time equal to the best recorded for it.
C20_NoStationRelaxedTwice ==
    /\ \A i \in DOMAIN pops : pops[i].exceeds => pops[i].kind = "discarded"
    /\ \A i \in DOMAIN pops, j \in DOMAIN pops :
          (i < j /\ pops[i].node = pops[j].node) =>
              /\ ~(pops[i].kind = "relaxed" /\ pops[j].kind = "relaxed")
              /\ ~(pops[i].equals /\ pops[j].equals)

\* C20 witness: a station was relaxed and a later, dearer entry of the same
\* station was popped and discarded.
C20_Witness ==
    \E i \in DOMAIN pops, j \in DOMAIN pops :
        /\ i < j
        /\ pops[i].node = pops[j].node
        /\ pops[i].kind = "relaxed"
        /\ pops[j].kind = "discarded"
        /\ pops[j].exceeds

\* The number of edges of the graph, parallel edges and self-loops counted.
RECURSIVE EdgeCount(_, _)
EdgeCount(g, keys) ==
    IF keys = {} THEN 0
    ELSE LET n == CHOOSE k \in keys : TRUE
         IN Len(g[n]) + EdgeCount(g, keys \ {n})

\* The loop pops the destination once, as its last pop, at the least cost
\* of a walk to it, and returns then; it returns None only with an empty
\* heap; and it pops at most once more than the graph has edges.
ReturnsAtFirstPop ==
    /\ \A i \in DOMAIN pops :
          pops[i].node = end_id =>
              /\ i = Len(pops)
              /\ pops[i].kind = "returned"
              /\ pc = "done"
              /\ result # None
              /\ result.total_minutes = pops[i].time
              /\ pops[i].time = MinWalkCost
    /\ (pc = "done" /\ result # None /\ start_id # end_id) =>
          (pops # <<>> /\ pops[Len(pops)].node = end_id)
    /\ (pc = "done" /\ result = None) => heap = <<>>
    /\ Len(pops) <= 1 + EdgeCount(graph, DOMAIN graph)

\* C21: on every graph of the bounds (cycles, self-loops and parallel edges
\* among them) with costs that are not negative, a call that has entered
\* its loop returns: at the first pop of the destination, whose time is
\* then the least cost of a walk to it, or with None once the heap is
\* empty.
C21_Terminates ==
    /\ []ReturnsAtFirstPop
    /\ (pc = "loop") ~> (pc = "done")

\* C21 witness: a call has returned a path after popping more than twice
\* on a graph where the start lies on a cycle of two stations.
C21_Witness ==
    /\ pc = "done"
    /\ result # None
    /\ start_id # end_id
    /\ Len(pops) > 2
    /\ \E n \in DOMAIN graph :
          /\ n # start_id
          /\ \E i \in DOMAIN graph[start_id] : graph[start_id][i][1] = n
          /\ \E i \in DOMAIN graph[n] : graph[n][i][1] = start_id

\* ------------- shortest_path_by_time on two graphs of the same edges
\* The settings whose transfer cost is not the segment cost.
UnequalCostSettings ==
    {cfg \in Settings : cfg.minutes_per_transfer # cfg.minutes_per_segment}

\* The trips of a list, each once, in the order of (from, to, class).
TripRank(t) ==
    <<t.from_station_id, t.to_station_id, (IF t.edge_type = transfer THEN 1 ELSE 0)>>

TripBefore(t, u) ==
    LET a == TripRank(t)
        b == TripRank(u)
    IN \/ a[1] < b[1]
       \/ a[1] = b[1] /\ a[2] < b[2]
       \/ a[1] = b[1] /\ a[2] = b[2] /\ a[3] <= b[3]

RECURSIVE EachOnce(_)
EachOnce(S) ==
    IF S = {} THEN <<>>
    ELSE LET t == CHOOSE x \in S : \A y \in S : TripBefore(x, y)
         IN <<t>> \o EachOnce(S \ {t})

\* build_graph(stations, trips) for every list of at most MaxTrips trips
\* over NumStations stations, next to the graph built of the same trips
\* taken once each in a fixed order; every pair of stations; every
\* settings of unequal costs.
EdgeOrderInit ==
    /\ api = {}
    /\ STATIONS_ADD = <<>>
    /\ EDGE_REMOVE = <<>>
    /\ EDGE_ADD = <<>>
    /\ ServiceInit
    /\ PathIdle
    /\ \E trips \in TripsOver(NumStations), s \in StationIds, e \in StationIds,
          cfg \in UnequalCostSettings :
          args = [graphs |-> <<build_graph(Prefix(NumStations),
                                           EachOnce({trips[i] : i \in DOMAIN trips})),
                               build_graph(Prefix(NumStations), trips)>>,
                  start_id |-> s, end_id |-> e, settings |-> cfg]
    /\ rets = <<>>

\* The function is called on the first graph, then on the second.
CallOnGraph ==
    /\ "graphs" \in DOMAIN args
    /\ Len(rets) < 2
    /\ rets' = Append(rets, shortest_path_by_time(args.settings, args.graphs[Len(rets) + 1],
                                                  args.start_id, args.end_id))
    /\ UNCHANGED args
    /\ UNCHANGED <<pathVars, tableVars, dbVars, enrichVars, queryVars>>

SpecEdgeOrder == EdgeOrderInit /\ [][CallOnGraph]_vars

\* The edges of a graph as a set of (from, to, class).
EdgeSet(g) ==
    UNION {{<<n, g[n][i][1], g[n][i][2]>> : i \in DOMAIN g[n]} : n \in DOMAIN g}

\* C22: with a transfer cost that is not the segment cost, two graphs of
\* the same keys and the same set of (from, to, class) edges give the same
\* (path, total) or both None, whatever the order of the adjacency lists
\* and however often an edge is repeated.
C22_EdgeSetDecides ==
    ("graphs" \in DOMAIN args /\ Len(rets) = 2) =>
        /\ DOMAIN args.graphs[1] = DOMAIN args.graphs[2]
        /\ EdgeSet(args.graphs[1]) = EdgeSet(args.graphs[2])
        /\ rets[1] = rets[2]

\* C22 witness: both calls have returned a path, on two graphs that differ
\* in the adjacency list of the start.
C22_Witness ==
    /\ "graphs" \in DOMAIN args
    /\ Len(rets) = 2
    /\ rets[1] # None
    /\ args.start_id # args.end_id
    /\ args.graphs[1][args.start_id] # args.graphs[2][args.start_id]

====
